---- MODULE Spec2Model ----
(***************************************************************************)
(* The SDMN Flask backend: user registration / login (app.py,              *)
(* routes/auth.py), the monitor CRUD endpoints and the n8n trigger         *)
(* endpoint (routes/monitor_api.py), over the two tables of models.py.     *)
(*                                                                         *)
(* Python values are written as their repr: None is "None", True is        *)
(* "True", the str n1 is "'n1'", the empty str is "''".  A key that a JSON *)
(* body does not carry has the value Missing.  Integers (ids, timestamps)  *)
(* are TLA+ integers; a NULL DateTime column is NullTime.                  *)
(***************************************************************************)
EXTENDS Integers, FiniteSets, Sequences, TLC

\* ---------------------------------------------------------------- bounds
\* datetime.utcnow() is modelled by a clock that ticks at every INSERT of a
\* monitor; MaxClock caps it, hence caps the monitors ever created.
MaxClock == 2

\* ------------------------------------------------------------ value sets
None == "None"
True == "True"
False == "False"
Missing == "<missing>"
EmptyStr == "''"
NullTime == 0
Anonymous == 0
NoId == 0 - 1

Usernames == {"'alice'", "'bob'"}
Emails == {"'a@x'", "'b@x'"}
Passwords == {"'pw'"}
Names == {"'n1'", "'n2'"}
Urls == {"'http://u1'"}
AnalysisTypes == {"'sentiment'", "'other'"}

\* A variant of Truthy: v is not None, the empty str counting as a value.
NotNone(v) == v \notin {None, Missing}

\* Python truthiness of a value (bool(v)); a missing key reads as None
\* through dict.get.
Truthy(v) == v \notin {None, Missing, EmptyStr, False, "0"}

\* isinstance(v, bool)
IsBool(v) == v \in {True, False}

\* ------------------------------------------------------------------ state
VARIABLES
    users,        \* table user: set of rows
    monitors,     \* table monitor: set of rows
    session,      \* flask_login current_user of the client: a user id or Anonymous
    clock,        \* datetime.utcnow()
    N8N_API_KEY,  \* os.getenv('N8N_API_KEY'): None when unset
    last,         \* the last request served and its response
    inflight      \* register requests between their check and their commit

vars == <<users, monitors, session, clock, N8N_API_KEY, last, inflight>>

\* ------------------------------------------------------------- models.py
\* class User: password_hash holds generate_password_hash(password); the
\* hash is salted and one-way, so it is kept as a wrapped value that only
\* check_password_hash can compare.
generate_password_hash(password) == <<"pbkdf2", password>>

check_password_hash(pwhash, password) == pwhash = <<"pbkdf2", password>>

User(id, username, email, password) ==
    [id |-> id, username |-> username, email |-> email,
     password_hash |-> generate_password_hash(password)]

\* A variant of Monitor: is_active defaults to False.
InactiveMonitor(id, user_id, name, data_source_url, analysis_type, now) ==
    [id |-> id, user_id |-> user_id, name |-> name,
     data_source_url |-> data_source_url, analysis_type |-> analysis_type,
     creation_date |-> now, last_run |-> NullTime, is_active |-> False]

\* class Monitor: creation_date defaults to utcnow, is_active to True,
\* last_run is nullable and has no default.
Monitor(id, user_id, name, data_source_url, analysis_type, now) ==
    [id |-> id, user_id |-> user_id, name |-> name,
     data_source_url |-> data_source_url, analysis_type |-> analysis_type,
     creation_date |-> now, last_run |-> NullTime, is_active |-> True]

\* INTEGER PRIMARY KEY of SQLite: the largest rowid in the table plus one.
Max(S) == IF S = {} THEN 0 ELSE CHOOSE x \in S : \A y \in S : y <= x

NextId(table) == Max({r.id : r \in table}) + 1

\* nullable=False on monitor.name, data_source_url, analysis_type, user_id.
MonitorNotNullViolated(m) ==
    \/ m.name = None
    \/ m.data_source_url = None
    \/ m.analysis_type = None
    \/ m.is_active = None

\* A variant of UserUniqueViolated: unique=True on user.username only.
UsernameTaken(table, u) == \E r \in table : r.username = u.username

\* unique=True on user.username and user.email.
UserUniqueViolated(table, u) ==
    \E r \in table : r.username = u.username \/ r.email = u.email

\* A variant of UserMonitors: the relationship without its foreign key.
AllMonitors(table, user_id) == table

\* User.monitors relationship: the monitors whose foreign key is the user.
UserMonitors(table, user_id) == {m \in table : m.user_id = user_id}

\* ------------------------------------------------------- request bodies
\* request.get_json(): None, or a dict.  A dict is a record over the keys
\* the handlers read; other_keys says that it carries further keys
\* (user_id, id, creation_date, last_run), which no handler reads.
NoBody ==
    [is_none |-> TRUE, name |-> Missing, data_source_url |-> Missing,
     analysis_type |-> Missing, is_active |-> Missing, other_keys |-> FALSE,
     monitor_id |-> NoId]

Dict(name, url, type, active, other, id) ==
    [is_none |-> FALSE, name |-> name, data_source_url |-> url,
     analysis_type |-> type, is_active |-> active, other_keys |-> other,
     monitor_id |-> id]

\* 'k' in data
Has(data, k) == data[k] # Missing

\* data.get('k')
Get(data, k) == IF Has(data, k) THEN data[k] ELSE None

\* not data: None and the empty dict are falsy
NotData(data) ==
    \/ data.is_none
    \/ /\ \A k \in {"name", "data_source_url", "analysis_type", "is_active"} :
             ~Has(data, k)
       /\ ~data.other_keys
       /\ data.monitor_id = NoId

\* ------------------------------------------------------------- responses
\* jsonify of one monitor; the list view of manage_monitors leaves user_id
\* out (NoId).
MonitorJson(m, with_user_id) ==
    [m EXCEPT !.user_id = IF with_user_id THEN m.user_id ELSE NoId]

\* What a handler run yields: the HTTP response (status, error or flash
\* message, the monitors in the body, processed_data, the keys of a JSON
\* object that is no monitor), the table after the request, and what the
\* run did (monitor looked up, requests.get calls, session left with
\* uncommitted changes).
Result(status, error, body, table) ==
    [status |-> status, error |-> error, body |-> body, data |-> <<>>,
     table |-> table, looked_up |-> FALSE, fetches |-> 0, dirty |-> FALSE,
     keys |-> IF status >= 400 THEN {"error"} ELSE {}]

\* login_manager.unauthorized() with login_view set: redirect to login.
Unauthorized(table) == Result(302, "Please log in to access this page.", {}, table)

\* ----------------------------------------------------- database session
\* A variant of session_remove: the pending changes are committed when the
\* request ends.
session_commit(committed, pending) == pending

\* Flask-SQLAlchemy removes the scoped session when the request ends:
\* changes that were never committed are discarded.
session_remove(committed, pending) == committed

\* A variant of CommitUpdate: the columns are nullable, the flush does not
\* raise.
CommitUpdateNullable(table, old, new) ==
    [ok |-> TRUE, table |-> (table \ {old}) \cup {new}]

\* db.session.commit() of one changed row: the flush raises IntegrityError
\* on a NULL in a NOT NULL column, and the handler then rolls back.
CommitUpdate(table, old, new) ==
    IF MonitorNotNullViolated(new)
    THEN [ok |-> FALSE, table |-> table]
    ELSE [ok |-> TRUE, table |-> (table \ {old}) \cup {new}]

\* A variant of CommitInsert: a unique constraint on (user_id, name).
CommitInsertUniqueName(table, new) ==
    IF \/ MonitorNotNullViolated(new)
       \/ \E m \in table : m.user_id = new.user_id /\ m.name = new.name
    THEN [ok |-> FALSE, table |-> table]
    ELSE [ok |-> TRUE, table |-> table \cup {new}]

CommitInsert(table, new) ==
    IF MonitorNotNullViolated(new)
    THEN [ok |-> FALSE, table |-> table]
    ELSE [ok |-> TRUE, table |-> table \cup {new}]

\* A variant of CommitDelete: the row is kept and marked inactive.
CommitDeleteSoft(table, old) ==
    [ok |-> TRUE, table |-> (table \ {old}) \cup {[old EXCEPT !.is_active = False]}]

\* db.session.delete(monitor); db.session.commit()
CommitDelete(table, old) == [ok |-> TRUE, table |-> table \ {old}]

\* --------------------------------------------------- manage_monitors
manage_monitors(table, current_user, method, data, now) ==
    IF method = "GET"
    THEN Result(200, "",
                {MonitorJson(m, FALSE) : m \in UserMonitors(table, current_user)},
                table)
    ELSE IF \/ NotData(data)
            \/ ~Truthy(Get(data, "name"))
            \/ ~Truthy(Get(data, "data_source_url"))
            \/ ~Truthy(Get(data, "analysis_type"))
    THEN Result(400,
                "Missing required monitor data (name, data_source_url, analysis_type)",
                {}, table)
    ELSE LET new_monitor == Monitor(NextId(table), current_user,
                                    Get(data, "name"),
                                    Get(data, "data_source_url"),
                                    Get(data, "analysis_type"), now)
             c == CommitInsert(table, new_monitor)
         IN  IF c.ok
             THEN Result(201, "", {MonitorJson(new_monitor, TRUE)}, c.table)
             ELSE Result(500, "Database integrity error.", {}, c.table)

\* --------------------------------------------- manage_single_monitor
\* A variant of FilterByIdAndUser: filter_by(id=monitor_id) alone.
FilterById(table, monitor_id, user_id) == {m \in table : m.id = monitor_id}

\* Monitor.query.filter_by(id=monitor_id, user_id=current_user.id)
FilterByIdAndUser(table, monitor_id, user_id) ==
    {m \in table : m.id = monitor_id /\ m.user_id = user_id}

\* The further keys of a body that carries them (other_keys): the columns a
\* client may try to set, with the values the clients of the run send.
OtherKeys == [user_id |-> 2, id |-> 3, creation_date |-> NullTime]

\* A variant of AssignFields: user_id and creation_date are taken from the
\* body as well.
AssignOwnerToo(monitor, data) ==
    LET m1 == IF Has(data, "name")
              THEN [monitor EXCEPT !.name = data.name] ELSE monitor
        m2 == IF Has(data, "data_source_url")
              THEN [m1 EXCEPT !.data_source_url = data.data_source_url] ELSE m1
        m3 == IF Has(data, "analysis_type")
              THEN [m2 EXCEPT !.analysis_type = data.analysis_type] ELSE m2
    IN  IF data.other_keys
        THEN [m3 EXCEPT !.user_id = OtherKeys.user_id,
                        !.creation_date = OtherKeys.creation_date]
        ELSE m3

\* A variant of AssignFields: only name is assigned.
AssignName(monitor, data) ==
    IF Has(data, "name") THEN [monitor EXCEPT !.name = data.name] ELSE monitor

\* The field assignments of PUT up to the is_active check.
AssignFields(monitor, data) ==
    LET m1 == IF Has(data, "name")
              THEN [monitor EXCEPT !.name = data.name] ELSE monitor
        m2 == IF Has(data, "data_source_url")
              THEN [m1 EXCEPT !.data_source_url = data.data_source_url] ELSE m1
        m3 == IF Has(data, "analysis_type")
              THEN [m2 EXCEPT !.analysis_type = data.analysis_type] ELSE m2
    IN  m3

manage_single_monitor(table, current_user, method, monitor_id, data) ==
    LET found == FilterByIdAndUser(table, monitor_id, current_user)
    IN  IF found = {}
        THEN [Result(404, "Monitor not found or does not belong to the current user",
                     {}, table) EXCEPT !.looked_up = TRUE]
        ELSE
        LET monitor == CHOOSE m \in found : TRUE
        IN  CASE method = "GET" ->
                   [Result(200, "", {MonitorJson(monitor, TRUE)}, table)
                        EXCEPT !.looked_up = TRUE]
              [] method = "PUT" ->
                   IF NotData(data)
                   THEN [Result(400, "No update data provided", {}, table)
                            EXCEPT !.looked_up = TRUE]
                   ELSE
                   LET m3 == AssignFields(monitor, data)
                   IN  IF Has(data, "is_active") /\ ~IsBool(data.is_active)
                       THEN [Result(400, "is_active must be a boolean value", {},
                                    session_remove(table, (table \ {monitor}) \cup {m3}))
                                EXCEPT !.looked_up = TRUE, !.dirty = (m3 # monitor)]
                       ELSE
                       LET m4 == IF Has(data, "is_active")
                                 THEN [m3 EXCEPT !.is_active = data.is_active]
                                 ELSE m3
                           c == CommitUpdate(table, monitor, m4)
                       IN  IF c.ok
                           THEN [Result(200, "", {MonitorJson(m4, TRUE)}, c.table)
                                    EXCEPT !.looked_up = TRUE]
                           ELSE [Result(500,
                                        "Failed to update monitor due to internal error.",
                                        {}, c.table)
                                    EXCEPT !.looked_up = TRUE]
              [] OTHER ->
                   LET c == CommitDelete(table, monitor)
                   IN  [Result(200, "deleted successfully.", {}, c.table)
                            EXCEPT !.looked_up = TRUE, !.keys = {"message"}]

\* ----------------------------------------------------- login_required
\* A variant of login_required: the view runs for every client.
login_not_required(current_user) == TRUE

\* @login_required: the view runs for an authenticated user only;
\* otherwise login_manager.unauthorized() answers.
login_required(current_user) == current_user # Anonymous

\* The routes /api/monitors and /api/monitors/<id> with their decorators.
monitors_route(table, current_user, method, data, now) ==
    IF login_required(current_user)
    THEN manage_monitors(table, current_user, method, data, now)
    ELSE Unauthorized(table)

single_monitor_route(table, current_user, method, monitor_id, data) ==
    IF login_required(current_user)
    THEN manage_single_monitor(table, current_user, method, monitor_id, data)
    ELSE Unauthorized(table)

\* ------------------------------------------- fetching and processing
\* A response body is a sequence of pieces of an HTML document: a script
\* element, a style element, a run of whitespace, or a word of text.
Script == "<script>js</script>"
Style == "<style>css</style>"
Blank == "  "
Word == "word"

Pages == {<<>>, <<Blank>>, <<Script>>, <<Word>>, <<Style, Word>>}

\* fetch_data_from_url: the outcome of requests.get is the network's
\* choice, a RequestException (ok = FALSE) or the response text.
FetchFailed == [ok |-> FALSE, text |-> <<>>]

Fetched(text) == [ok |-> TRUE, text |-> text]

FetchOutcomes == {FetchFailed} \cup {Fetched(p) : p \in Pages}

\* A value that may be None: processed_data, raw_data.
NoneValue == [is_none |-> TRUE, text |-> <<>>]

Some(text) == [is_none |-> FALSE, text |-> text]

\* requests.get serves the URLs that start with http:// or https://; for
\* any other URL it raises InvalidSchema or MissingSchema, which are
\* RequestExceptions.
HttpUrls == {"'http://u1'", "'http://u2'", "'https://u1'"}

NonHttpUrls == {"'ftp://u2'"}

IsHttp(url) == url \in HttpUrls

fetch_data_from_url(url, outcome) ==
    IF IsHttp(url) /\ outcome.ok THEN Some(outcome.text) ELSE NoneValue

IsText(piece) == piece \notin {Script, Style, Blank}

\* extract_text_from_html: None for empty content; otherwise the text with
\* script and style elements removed and blank chunks dropped.
extract_text_from_html(html_content) ==
    IF html_content = <<>>
    THEN NoneValue
    ELSE Some(SelectSeq(html_content, IsText))

\* A variant of process_monitor_data: the extractor is run for the URLs of
\* web pages, whatever the analysis type.
process_by_url_scheme(monitor, outcome) ==
    IF monitor.data_source_url = EmptyStr
    THEN [value |-> NoneValue, fetches |-> 0]
    ELSE
    LET raw_data == fetch_data_from_url(monitor.data_source_url, outcome)
    IN  IF raw_data.is_none
        THEN [value |-> NoneValue, fetches |-> 1]
        ELSE IF IsHttp(monitor.data_source_url)
        THEN [value |-> extract_text_from_html(raw_data.text), fetches |-> 1]
        ELSE [value |-> raw_data, fetches |-> 1]

\* A variant of process_monitor_data: a failed fetch is tried once more.
process_with_retry(monitor, outcome) ==
    IF monitor.data_source_url = EmptyStr
    THEN [value |-> NoneValue, fetches |-> 0]
    ELSE
    LET raw_data == fetch_data_from_url(monitor.data_source_url, outcome)
    IN  IF raw_data.is_none
        THEN [value |-> fetch_data_from_url(monitor.data_source_url, outcome),
              fetches |-> 2]
        ELSE IF monitor.analysis_type \in {"'sentiment'", "'keywords'"}
        THEN [value |-> extract_text_from_html(raw_data.text), fetches |-> 1]
        ELSE [value |-> raw_data, fetches |-> 1]

\* A variant of process_monitor_data: the URL is fetched without the check
\* that it is set.
process_without_url_check(monitor, outcome) ==
    LET raw_data == fetch_data_from_url(monitor.data_source_url, outcome)
    IN  IF raw_data.is_none
        THEN [value |-> NoneValue, fetches |-> 1]
        ELSE IF monitor.analysis_type \in {"'sentiment'", "'keywords'"}
        THEN [value |-> extract_text_from_html(raw_data.text), fetches |-> 1]
        ELSE [value |-> raw_data, fetches |-> 1]

\* process_monitor_data: [value, fetches]
process_monitor_data(monitor, outcome) ==
    IF monitor.data_source_url = EmptyStr
    THEN [value |-> NoneValue, fetches |-> 0]
    ELSE
    LET raw_data == fetch_data_from_url(monitor.data_source_url, outcome)
    IN  IF raw_data.is_none
        THEN [value |-> NoneValue, fetches |-> 1]
        ELSE IF monitor.analysis_type \in {"'sentiment'", "'keywords'"}
        THEN [value |-> extract_text_from_html(raw_data.text), fetches |-> 1]
        ELSE [value |-> raw_data, fetches |-> 1]

\* ------------------------------------------ trigger_monitor_processing
\* A variant of QueryGet: only an active monitor is found.
QueryGetActive(table, monitor_id) ==
    {m \in table : m.id = monitor_id /\ m.is_active = True}

\* Monitor.query.get(monitor_id)
QueryGet(table, monitor_id) == {m \in table : m.id = monitor_id}

\* A variant of KeyRejected: a request without the header is let through.
KeyRejectedIfPresent(api_key_header, expected_api_key) ==
    Truthy(api_key_header) /\ api_key_header # expected_api_key

\* A variant of KeyRejected: the comparison alone, without the test that
\* the header is there.
KeyDiffers(api_key_header, expected_api_key) ==
    api_key_header # expected_api_key

\* not api_key_header or api_key_header != expected_api_key
KeyRejected(api_key_header, expected_api_key) ==
    \/ ~Truthy(api_key_header)
    \/ api_key_header # expected_api_key

\* A variant of trigger_monitor_processing: a successful run is recorded in
\* the monitor's last_run.
trigger_recording_last_run(table, api_key_header, expected_api_key, data, outcome) ==
    IF KeyRejected(api_key_header, expected_api_key)
    THEN Result(401, "Unauthorized: Invalid or missing API key", {}, table)
    ELSE IF NotData(data) \/ data.monitor_id = NoId
    THEN Result(400, "Missing 'monitor_id' in request body", {}, table)
    ELSE
    LET found == QueryGet(table, data.monitor_id)
    IN  IF found = {}
        THEN [Result(404, "Monitor with ID not found", {}, table)
                 EXCEPT !.looked_up = TRUE]
        ELSE
        LET monitor == CHOOSE m \in found : TRUE
            p == process_monitor_data(monitor, outcome)
        IN  IF p.value.is_none
            THEN [Result(500, "Failed to process data for monitor", {}, table)
                     EXCEPT !.looked_up = TRUE, !.fetches = p.fetches]
            ELSE [Result(200, "", {},
                         (table \ {monitor}) \cup
                             {[monitor EXCEPT !.last_run = monitor.creation_date]})
                     EXCEPT !.looked_up = TRUE, !.fetches = p.fetches,
                            !.data = p.value.text,
                            !.keys = {"message", "processed_data"}]

\* A variant of trigger_monitor_processing: the body is checked before the
\* key.
trigger_body_first(table, api_key_header, expected_api_key, data, outcome) ==
    IF NotData(data) \/ data.monitor_id = NoId
    THEN Result(400, "Missing 'monitor_id' in request body", {}, table)
    ELSE IF KeyRejected(api_key_header, expected_api_key)
    THEN Result(401, "Unauthorized: Invalid or missing API key", {}, table)
    ELSE
    LET found == QueryGet(table, data.monitor_id)
    IN  IF found = {}
        THEN [Result(404, "Monitor with ID not found", {}, table)
                 EXCEPT !.looked_up = TRUE]
        ELSE
        LET monitor == CHOOSE m \in found : TRUE
            p == process_monitor_data(monitor, outcome)
        IN  IF p.value.is_none
            THEN [Result(500, "Failed to process data for monitor", {}, table)
                     EXCEPT !.looked_up = TRUE, !.fetches = p.fetches]
            ELSE [Result(200, "", {}, table)
                     EXCEPT !.looked_up = TRUE, !.fetches = p.fetches,
                            !.data = p.value.text,
                            !.keys = {"message", "processed_data"}]

trigger_monitor_processing(table, api_key_header, expected_api_key, data, outcome) ==
    IF KeyRejected(api_key_header, expected_api_key)
    THEN Result(401, "Unauthorized: Invalid or missing API key", {}, table)
    ELSE IF NotData(data) \/ data.monitor_id = NoId
    THEN Result(400, "Missing 'monitor_id' in request body", {}, table)
    ELSE
    LET found == QueryGet(table, data.monitor_id)
    IN  IF found = {}
        THEN [Result(404, "Monitor with ID not found", {}, table)
                 EXCEPT !.looked_up = TRUE]
        ELSE
        LET monitor == CHOOSE m \in found : TRUE
            p == process_monitor_data(monitor, outcome)
        IN  IF p.value.is_none
            THEN [Result(500, "Failed to process data for monitor", {}, table)
                     EXCEPT !.looked_up = TRUE, !.fetches = p.fetches]
            ELSE [Result(200, "", {}, table)
                     EXCEPT !.looked_up = TRUE, !.fetches = p.fetches,
                            !.data = p.value.text,
                            !.keys = {"message", "processed_data"}]

\* ------------------------------------------------------------- register
\* User.query.filter((User.username == username) | (User.email == email))
ExistingUser(table, username, email) ==
    {u \in table : u.username = username \/ u.email = email}

\* A variant of CommitUser: the table has no unique constraint.
CommitUserUnchecked(table, new_user) ==
    [ok |-> TRUE, table |-> table \cup {new_user}]

\* db.session.add(new_user); db.session.commit(), with the rollback of the
\* except branch.
CommitUser(table, new_user) ==
    IF UserUniqueViolated(table, new_user)
    THEN [ok |-> FALSE, table |-> table]
    ELSE [ok |-> TRUE, table |-> table \cup {new_user}]

\* The POST branch of register up to the construction of new_user: the
\* redirect it ends with, or "commit" when the new user is to be saved.
register_check(table, current_user, form) ==
    IF current_user # Anonymous
    THEN "You are already registered and logged in."
    ELSE IF ~Truthy(form.username) \/ ~Truthy(form.email) \/ ~Truthy(form.password)
    THEN "All fields are required."
    ELSE IF ExistingUser(table, form.username, form.email) # {}
    THEN "Username or Email already exists."
    ELSE "commit"

register_commit(table, form) ==
    LET new_user == User(NextId(table), form.username, form.email, form.password)
        c == CommitUser(table, new_user)
    IN  IF c.ok
        THEN Result(302, "Registration successful! Please log in.", {}, c.table)
        ELSE Result(302, "Username or Email already exists.", {}, c.table)

register(table, current_user, method, form) ==
    LET checked == register_check(table, current_user, form)
    IN  IF current_user = Anonymous /\ method = "GET"
        THEN Result(200, "Registration Page (Placeholder)", {}, table)
        ELSE IF checked = "commit"
        THEN register_commit(table, form)
        ELSE Result(302, checked, {}, table)

\* ---------------------------------------------------------------- login
\* The user id that login_user puts in the session, or Anonymous.
login(table, current_user, method, form) ==
    IF current_user # Anonymous
    THEN [flash |-> "You are already logged in.", user |-> current_user]
    ELSE IF method = "GET"
    THEN [flash |-> "Login Page (Placeholder)", user |-> Anonymous]
    ELSE IF ~Truthy(form.username) \/ ~Truthy(form.password)
    THEN [flash |-> "Username and password are required.", user |-> Anonymous]
    ELSE
    LET found == {u \in table : u.username = form.username}
    IN  IF \E u \in found : check_password_hash(u.password_hash, form.password)
        THEN [flash |-> "Logged in successfully.",
              user |-> (CHOOSE u \in found : TRUE).id]
        ELSE [flash |-> "Invalid username or password.", user |-> Anonymous]

\* --------------------------------------------------------------- inputs
\* The requests the run is driven by.
RegisterForms ==
    {[username |-> "'alice'", email |-> "'a@x'", password |-> "'pw'"],
     [username |-> "'bob'", email |-> "'b@x'", password |-> "'pw'"]}

LoginForms ==
    {[username |-> "'alice'", password |-> "'pw'"],
     [username |-> "'bob'", password |-> "'pw'"],
     [username |-> "'bob'", password |-> "'bad'"]}

\* The registrations of the concurrent runs: every username with every
\* email, and a form with a field left out.
RaceForms ==
    [username : Usernames, email : Emails, password : Passwords] \cup
    {[username |-> "'bob'", email |-> None, password |-> "'pw'"]}

ApiKeys == {None, EmptyStr, "'secret'", "'wrong'"}

MonitorIds == 1..MaxClock

CreateBodies ==
    {NoBody,
     Dict(EmptyStr, "'http://u1'", "'sentiment'", Missing, FALSE, NoId),
     Dict("'n1'", Missing, "'sentiment'", Missing, TRUE, NoId),
     Dict("'n1'", "'http://u1'", "'sentiment'", Missing, FALSE, NoId),
     Dict("'n1'", "'http://u1'", "'sentiment'", False, TRUE, NoId)}

UpdateBodies ==
    {NoBody,
     Dict(Missing, Missing, Missing, Missing, TRUE, NoId),
     Dict(None, Missing, Missing, Missing, FALSE, NoId),
     Dict("'n1'", Missing, Missing, True, FALSE, NoId),
     Dict(Missing, Missing, Missing, False, FALSE, NoId),
     Dict(Missing, Missing, Missing, "1", FALSE, NoId),
     Dict("'n2'", Missing, Missing, "1", FALSE, NoId)}

TriggerBodies ==
    {NoBody, Dict(Missing, Missing, Missing, Missing, TRUE, NoId)} \cup
    {Dict(Missing, Missing, Missing, Missing, FALSE, i) : i \in MonitorIds}

TriggerRequests ==
    {[api_key |-> k, data |-> Dict(Missing, Missing, Missing, Missing, FALSE, 1),
      outcome |-> Fetched(<<Word>>)] : k \in ApiKeys} \cup
    {[api_key |-> "'secret'", data |-> d, outcome |-> o] :
        d \in TriggerBodies, o \in {FetchFailed, Fetched(<<Word>>)}}

\* -------------------------------------------------------------- the run
Served(op, method, r) ==
    [op |-> op, method |-> method, status |-> r.status, error |-> r.error,
     fetches |-> r.fetches, dirty |-> r.dirty]

\* Requests served at once (threads of the server).
MaxInFlight == 2

Idle == [username |-> None, email |-> None, password |-> None]

Init ==
    /\ users = {}
    /\ monitors = {}
    /\ session = Anonymous
    /\ clock = 1
    /\ N8N_API_KEY = "'secret'"
    /\ last = Served("start", "", Result(0, "", {}, {}))
    /\ inflight = [t \in 1..MaxInFlight |-> Idle]

Register(method, form) ==
    LET r == register(users, session, method, form)
    IN  /\ users' = r.table
        /\ last' = Served("register", method, r)
        /\ UNCHANGED <<monitors, session, clock, N8N_API_KEY, inflight>>

\* register served by thread t, up to its commit: the anonymous POST passes
\* the checks and holds new_user, or ends in a redirect.
RegisterCheck(t, form) ==
    LET checked == register_check(users, Anonymous, form)
    IN  /\ inflight[t] = Idle
        /\ inflight' = [inflight EXCEPT ![t] = IF checked = "commit" THEN form ELSE Idle]
        /\ last' = IF checked = "commit"
                   THEN last
                   ELSE Served("register_check", "POST",
                               Result(302, checked, {}, users))
        /\ UNCHANGED <<users, monitors, session, clock, N8N_API_KEY>>

\* the commit of thread t, and its rollback on IntegrityError
RegisterCommit(t) ==
    LET r == register_commit(users, inflight[t])
    IN  /\ inflight[t] # Idle
        /\ users' = r.table
        /\ inflight' = [inflight EXCEPT ![t] = Idle]
        /\ last' = Served("register_commit", "POST", r)
        /\ UNCHANGED <<monitors, session, clock, N8N_API_KEY>>

Login(method, form) ==
    LET r == login(users, session, method, form)
    IN  /\ session' = r.user
        /\ last' = Served("login", method,
                          Result(IF method = "GET" /\ session = Anonymous
                                 THEN 200 ELSE 302, r.flash, {}, {}))
        /\ UNCHANGED <<users, monitors, clock, N8N_API_KEY, inflight>>

\* logout is behind login_required
Logout ==
    /\ session' = Anonymous
    /\ last' = Served("logout", "GET",
                      IF session = Anonymous
                      THEN Unauthorized({})
                      ELSE Result(302, "You have been logged out.", {}, {}))
    /\ UNCHANGED <<users, monitors, clock, N8N_API_KEY, inflight>>

ManageMonitors(method, data) ==
    LET r == monitors_route(monitors, session, method, data, clock)
    IN  /\ r.status = 201 => clock <= MaxClock
        /\ monitors' = r.table
        /\ clock' = IF r.status = 201 THEN clock + 1 ELSE clock
        /\ last' = Served("manage_monitors", method, r)
        /\ UNCHANGED <<users, session, N8N_API_KEY, inflight>>

ManageSingleMonitor(method, monitor_id, data) ==
    LET r == single_monitor_route(monitors, session, method, monitor_id, data)
    IN  /\ monitors' = r.table
        /\ last' = Served("manage_single_monitor", method, r)
        /\ UNCHANGED <<users, session, clock, N8N_API_KEY, inflight>>

TriggerMonitorProcessing(api_key_header, data, outcome) ==
    LET r == trigger_monitor_processing(monitors, api_key_header, N8N_API_KEY,
                                        data, outcome)
    IN  /\ monitors' = r.table
        /\ last' = Served("trigger_monitor_processing", "POST", r)
        /\ UNCHANGED <<users, session, clock, N8N_API_KEY, inflight>>

\* The server handling one request at a time.
Next ==
    \/ \E form \in RegisterForms : Register("POST", form)
    \/ \E form \in LoginForms : Login("POST", form)
    \/ Logout
    \/ \E data \in CreateBodies : ManageMonitors("POST", data)
    \/ ManageMonitors("GET", NoBody)
    \/ \E method \in {"GET", "DELETE"}, monitor_id \in MonitorIds :
          ManageSingleMonitor(method, monitor_id, NoBody)
    \/ \E monitor_id \in MonitorIds, data \in UpdateBodies :
          ManageSingleMonitor("PUT", monitor_id, data)
    \/ \E req \in TriggerRequests :
          TriggerMonitorProcessing(req.api_key, req.data, req.outcome)

Spec == Init /\ [][Next]_vars

\* The registration and login pages under concurrent registrations: the
\* threads of the server interleave between a register's check and its
\* commit.
NextRace ==
    \/ \E t \in 1..MaxInFlight, form \in RaceForms : RegisterCheck(t, form)
    \/ \E t \in 1..MaxInFlight : RegisterCommit(t)
    \/ \E method \in {"GET", "POST"}, form \in RaceForms : Register(method, form)
    \/ \E method \in {"GET", "POST"}, form \in LoginForms : Login(method, form)
    \/ Logout

SpecRace == Init /\ [][NextRace]_vars

\* The trigger endpoint over monitors of every configuration: one user
\* creates monitors with an HTTP or another URL and each analysis type,
\* empties a URL by an update, and the automation triggers each id under
\* every outcome of the fetch.
ProcCreateBodies ==
    {Dict("'n1'", u, t, Missing, FALSE, NoId) :
        u \in {"'http://u1'", "'ftp://u2'"},
        t \in {"'sentiment'", "'keywords'", "'other'"}}

ProcUpdateBodies == {Dict(Missing, EmptyStr, Missing, Missing, FALSE, NoId)}

NextProc ==
    \/ Register("POST", [username |-> "'alice'", email |-> "'a@x'", password |-> "'pw'"])
    \/ Login("POST", [username |-> "'alice'", password |-> "'pw'"])
    \/ \E data \in ProcCreateBodies : ManageMonitors("POST", data)
    \/ \E monitor_id \in MonitorIds, data \in ProcUpdateBodies :
          ManageSingleMonitor("PUT", monitor_id, data)
    \/ \E monitor_id \in MonitorIds, outcome \in FetchOutcomes :
          TriggerMonitorProcessing(N8N_API_KEY,
              Dict(Missing, Missing, Missing, Missing, FALSE, monitor_id), outcome)

SpecProc == Init /\ [][NextProc]_vars

\* The CRUD endpoints under updates that fail or store unusual values: two
\* users create, update, delete and re-create monitors; an update sets name
\* to null next to a new URL, sets name to the empty str, or carries only
\* keys that the handler does not read; the automation triggers each id.
CrudLoginForms ==
    {[username |-> "'alice'", password |-> "'pw'"],
     [username |-> "'bob'", password |-> "'pw'"]}

CrudCreateBodies == {Dict("'n1'", "'http://u1'", "'sentiment'", Missing, FALSE, NoId)}

CrudUpdateBodies ==
    {Dict(None, "'http://u2'", Missing, Missing, FALSE, NoId),
     Dict(EmptyStr, Missing, Missing, Missing, FALSE, NoId),
     Dict(Missing, Missing, Missing, Missing, TRUE, NoId)}

NextCrud ==
    \/ \E form \in RegisterForms : Register("POST", form)
    \/ \E form \in CrudLoginForms : Login("POST", form)
    \/ Logout
    \/ \E data \in CrudCreateBodies : ManageMonitors("POST", data)
    \/ \E monitor_id \in MonitorIds, data \in CrudUpdateBodies :
          ManageSingleMonitor("PUT", monitor_id, data)
    \/ \E monitor_id \in MonitorIds : ManageSingleMonitor("DELETE", monitor_id, NoBody)
    \/ \E monitor_id \in MonitorIds :
          TriggerMonitorProcessing(N8N_API_KEY,
              Dict(Missing, Missing, Missing, Missing, FALSE, monitor_id),
              Fetched(<<Word>>))

SpecCrud == Init /\ [][NextCrud]_vars

\* The server started without N8N_API_KEY in its environment: os.getenv
\* returns None at every trigger request.  The X-API-KEY headers of the
\* run: left out, empty, keys, and the text None.
NoKeyHeaders == ApiKeys \cup {"'None'"}

InitNoKey ==
    /\ users = {}
    /\ monitors = {}
    /\ session = Anonymous
    /\ clock = 1
    /\ N8N_API_KEY = None
    /\ last = Served("start", "", Result(0, "", {}, {}))
    /\ inflight = [t \in 1..MaxInFlight |-> Idle]

NextNoKey ==
    \/ \E form \in RegisterForms : Register("POST", form)
    \/ \E form \in CrudLoginForms : Login("POST", form)
    \/ Logout
    \/ \E data \in CrudCreateBodies : ManageMonitors("POST", data)
    \/ \E monitor_id \in MonitorIds : ManageSingleMonitor("DELETE", monitor_id, NoBody)
    \/ \E header \in NoKeyHeaders, data \in TriggerBodies,
          outcome \in {FetchFailed, Fetched(<<Word>>)} :
          TriggerMonitorProcessing(header, data, outcome)

SpecNoKey == InitNoKey /\ [][NextNoKey]_vars

\* ============================================================== claims
UserIds == {u.id : u \in users}

\* A response as the client sees it.
Response(r) ==
    [status |-> r.status, error |-> r.error, body |-> r.body, data |-> r.data,
     keys |-> r.keys]

\* The requests to /monitors/<id>: GET and DELETE carry no body.
SingleRequests ==
    {[method |-> m, data |-> NoBody] : m \in {"GET", "DELETE"}} \cup
    {[method |-> "PUT", data |-> d] : d \in UpdateBodies}

\* Every id a request of the run can name is the id of a stored monitor.
AllIdsStored == \A id \in MonitorIds : \E m \in monitors : m.id = id

\* C1: a trigger request whose X-API-KEY header is missing, empty or
\* different from the configured key is answered 401 whatever its body and
\* whether or not monitor_id names a monitor; no monitor is looked up, no
\* URL is fetched, and the store is left as it was.
C1_BadKeyIs401 ==
    \A k \in ApiKeys, d \in TriggerBodies, o \in {FetchFailed, Fetched(<<Word>>)} :
        (k = None \/ k = EmptyStr \/ k # N8N_API_KEY) =>
            LET r == trigger_monitor_processing(monitors, k, N8N_API_KEY, d, o)
            IN  /\ r.status = 401
                /\ ~r.looked_up
                /\ r.fetches = 0
                /\ r.table = monitors

\* a trigger was answered 401 while every id it can name is stored
C1_Witness ==
    /\ last.op = "trigger_monitor_processing"
    /\ last.status = 401
    /\ last.fetches = 0
    /\ AllIdsStored

\* C2: GET, PUT or DELETE on /monitors/<id> by user A for a monitor that a
\* different user owns is answered 404 and leaves the store, that monitor
\* included, unchanged.
C2_NotOwnedIs404 ==
    \A A \in UserIds, id \in MonitorIds, q \in SingleRequests :
        (\E m \in monitors : m.id = id /\ m.user_id # A) =>
            LET r == manage_single_monitor(monitors, A, q.method, id, q.data)
            IN  /\ r.status = 404
                /\ r.table = monitors

\* a DELETE by a logged-in user was answered 404 while every id names a
\* monitor of another user, and those monitors are still stored
C2_Witness ==
    /\ last.op = "manage_single_monitor"
    /\ last.method = "DELETE"
    /\ last.status = 404
    /\ session \in UserIds
    /\ \A id \in MonitorIds : \E m \in monitors : m.id = id /\ m.user_id # session

\* C3: the single-monitor endpoint answers caller A the same on the store
\* as on the store without the monitors A does not own: an id of another
\* user's monitor gets the response of an id that names nothing.
C3_NoExistenceLeak ==
    \A A \in UserIds, id \in MonitorIds, q \in SingleRequests :
        Response(manage_single_monitor(monitors, A, q.method, id, q.data))
            = Response(manage_single_monitor({m \in monitors : m.user_id = A}, A,
                                             q.method, id, q.data))

\* a GET by a logged-in user was answered not found while every id names a
\* monitor of another user
C3_Witness ==
    /\ last.op = "manage_single_monitor"
    /\ last.method = "GET"
    /\ last.status = 404
    /\ last.error = "Monitor not found or does not belong to the current user"
    /\ session \in UserIds
    /\ \A id \in MonitorIds : \E m \in monitors : m.id = id /\ m.user_id # session

\* C4: GET /monitors by a logged-in caller lists exactly the stored
\* monitors whose user_id is the caller's id, each with its stored fields.
C4_ListIsOwned ==
    \A A \in UserIds :
        LET r == manage_monitors(monitors, A, "GET", NoBody, clock)
        IN  /\ r.status = 200
            /\ {v.id : v \in r.body} = {m.id : m \in {x \in monitors : x.user_id = A}}
            /\ \A v \in r.body : \E m \in monitors :
                  /\ m.user_id = A
                  /\ [v EXCEPT !.user_id = A] = m
            /\ r.table = monitors

\* the list was served to a caller who owns a monitor while another user
\* owns one too
C4_Witness ==
    /\ last.op = "manage_monitors"
    /\ last.method = "GET"
    /\ last.status = 200
    /\ \E m \in monitors : m.user_id = session
    /\ \E m \in monitors : m.user_id # session

\* The create bodies of C5: every combination of a missing, an empty and a
\* given value of the three required keys.
C5Bodies ==
    {NoBody} \cup
    {Dict(n, u, t, Missing, TRUE, NoId) :
        n \in {Missing, EmptyStr, "'n1'"},
        u \in {Missing, EmptyStr, "'http://u1'"},
        t \in {Missing, EmptyStr, "'sentiment'"}}

\* C5: a create whose body is absent, or lacks or has empty one of name,
\* data_source_url, analysis_type, is answered 400 and leaves the store
\* unchanged.
C5_BadCreateIs400 ==
    \A A \in UserIds, d \in C5Bodies :
        (\/ d.is_none
         \/ \E k \in {"name", "data_source_url", "analysis_type"} :
               d[k] \in {Missing, EmptyStr}) =>
            LET r == manage_monitors(monitors, A, "POST", d, clock)
            IN  /\ r.status = 400
                /\ r.table = monitors

\* a create by a logged-in user was rejected with 400, the store holding
\* a monitor
C5_Witness ==
    /\ last.op = "manage_monitors"
    /\ last.method = "POST"
    /\ last.status = 400
    /\ session \in UserIds
    /\ monitors # {}

\* The create bodies of C6: valid ones, with and without an is_active of
\* false and further keys (user_id, creation_date) of the client's choice.
C6Bodies ==
    {Dict(n, "'http://u1'", t, a, o, NoId) :
        n \in Names, t \in AnalysisTypes, a \in {Missing, False}, o \in BOOLEAN}

\* C6: a create with the three required fields is answered 201 and adds
\* exactly one monitor: its owner is the caller, is_active is true, last_run
\* is null, creation_date is the server's time, its id is the id of no
\* monitor stored before, whatever else the body carries.
C6_CreateAddsOne ==
    \A A \in UserIds, d \in C6Bodies :
        LET r == manage_monitors(monitors, A, "POST", d, clock)
        IN  /\ r.status = 201
            /\ \E m \in r.table :
                  /\ m \notin monitors
                  /\ r.table = monitors \cup {m}
                  /\ \A x \in monitors : x.id # m.id
                  /\ m.user_id = A
                  /\ m.is_active = True
                  /\ m.last_run = NullTime
                  /\ m.creation_date = clock
                  /\ m.name = d.name
                  /\ m.data_source_url = d.data_source_url
                  /\ m.analysis_type = d.analysis_type

\* a create was answered 201 and its monitor stood next to an older one
C6_Witness ==
    /\ last.op = "manage_monitors"
    /\ last.method = "POST"
    /\ last.status = 201
    /\ \E m \in monitors :
          /\ m.creation_date = clock - 1
          /\ m.user_id = session
          /\ m.is_active = True
          /\ \E x \in monitors : x.creation_date < m.creation_date /\ x.id # m.id

\* C7: a create by a user who owns a monitor of the same (non-empty) name,
\* with any url and type, is answered 201, and the store then holds the old
\* monitor and a new one of that name and owner under another id.
C7_SameNameCreated ==
    \A old \in monitors, u \in {"'http://u1'", "'http://u2'"}, t \in AnalysisTypes :
        LET d == Dict(old.name, u, t, Missing, FALSE, NoId)
            r == manage_monitors(monitors, old.user_id, "POST", d, clock)
        IN  old.name # EmptyStr =>
            /\ r.status = 201
            /\ old \in r.table
            /\ Cardinality(r.table) = Cardinality(monitors) + 1
            /\ \E m \in r.table :
                  /\ m.id # old.id
                  /\ m.name = old.name
                  /\ m.user_id = old.user_id

\* a create was answered 201 and its monitor has the name and owner of an
\* older monitor
C7_Witness ==
    /\ last.op = "manage_monitors"
    /\ last.method = "POST"
    /\ last.status = 201
    /\ \E m \in monitors, x \in monitors :
          /\ m.creation_date = clock - 1
          /\ x.creation_date < m.creation_date
          /\ x.id # m.id
          /\ x.name = m.name
          /\ x.user_id = m.user_id

\* C8: a registration with the username or the email of a stored user,
\* served in one piece or committed after another thread's commit, stores
\* no user and does not report success; no two stored users share a
\* username or an email.
C8_UniqueUsers ==
    /\ \A u1 \in users, u2 \in users :
          (u1.username = u2.username \/ u1.email = u2.email) => u1 = u2
    /\ \A form \in RaceForms :
          (\E u \in users : u.username = form.username \/ u.email = form.email) =>
              /\ LET r == register(users, Anonymous, "POST", form)
                 IN  /\ r.table = users
                     /\ r.error # "Registration successful! Please log in."
              /\ LET r == register_commit(users, form)
                 IN  /\ r.table = users
                     /\ r.error # "Registration successful! Please log in."

\* a registration was refused for its username or email, a user being
\* stored
C8_Witness ==
    /\ last.op = "register"
    /\ last.method = "POST"
    /\ last.error = "Username or Email already exists."
    /\ users # {}

\* The update bodies of C9: each of the four fields left out or given.
C9Bodies ==
    {Dict(n, u, t, a, FALSE, NoId) :
        n \in {Missing, "'n2'"}, u \in {Missing, "'http://u2'"},
        t \in {Missing, "'other'"}, a \in {Missing, False}}

\* C9: a PUT by the owner that carries some of name, data_source_url,
\* analysis_type, is_active is answered 200; the monitor then has the given
\* value in each field the body carries and its old value in every other
\* column, and every other monitor is stored as before.
C9_UpdateFrame ==
    \A old \in monitors, d \in C9Bodies :
        LET r == manage_single_monitor(monitors, old.user_id, "PUT", old.id, d)
        IN  ~NotData(d) =>
            /\ r.status = 200
            /\ \E new \in r.table :
                  /\ r.table = (monitors \ {old}) \cup {new}
                  /\ \A k \in {"name", "data_source_url", "analysis_type", "is_active"} :
                        new[k] = IF d[k] # Missing THEN d[k] ELSE old[k]
                  /\ new.id = old.id
                  /\ new.user_id = old.user_id
                  /\ new.creation_date = old.creation_date
                  /\ new.last_run = old.last_run

\* a PUT was answered 200 and a monitor of the caller is inactive, which
\* only an update makes it, next to another monitor
C9_Witness ==
    /\ last.op = "manage_single_monitor"
    /\ last.method = "PUT"
    /\ last.status = 200
    /\ \E m \in monitors :
          /\ m.user_id = session
          /\ m.is_active = False
          /\ \E x \in monitors : x.id # m.id

\* The update bodies of C10: an is_active that is a number or null, with
\* and without new values of the other three fields.
C10Bodies ==
    {Dict(n, u, t, a, FALSE, NoId) :
        n \in {Missing, "'n2'"}, u \in {Missing, "'http://u2'"},
        t \in {Missing, "'other'"}, a \in {"1", None}}

\* C10: a PUT by the owner whose is_active is not a boolean is answered 400
\* and the store is as before, whatever name, data_source_url and
\* analysis_type the body carries; a GET by the owner then returns the
\* monitor as it was.
C10_BadActiveChangesNothing ==
    \A old \in monitors, d \in C10Bodies :
        LET r == manage_single_monitor(monitors, old.user_id, "PUT", old.id, d)
            g == manage_single_monitor(r.table, old.user_id, "GET", old.id, NoBody)
        IN  /\ r.status = 400
            /\ r.error = "is_active must be a boolean value"
            /\ r.table = monitors
            /\ g.status = 200
            /\ g.body = {old}

\* a PUT was refused for its is_active after a field of the in-memory
\* monitor had been assigned
C10_Witness ==
    /\ last.op = "manage_single_monitor"
    /\ last.method = "PUT"
    /\ last.status = 400
    /\ last.error = "is_active must be a boolean value"
    /\ last.dirty
    /\ session \in UserIds

\* The stored monitor m under another owner and with the other value of
\* is_active.
OtherOwnerAndFlag(m) ==
    {[m EXCEPT !.user_id = u, !.is_active = a] :
        u \in {1, 2, 3}, a \in {True, False}}

\* C11: a trigger with the configured key for the id of a stored monitor
\* looks the monitor up and runs the processor (200 or 500, never 404), and
\* its response is the same when the monitor has another owner or the
\* other value of is_active; the logged-in user is no input of the handler.
C11_TriggerIgnoresOwnerAndFlag ==
    \A m \in monitors, o \in {FetchFailed, Fetched(<<>>), Fetched(<<Word>>)} :
        LET d == Dict(Missing, Missing, Missing, Missing, FALSE, m.id)
            r == trigger_monitor_processing(monitors, N8N_API_KEY, N8N_API_KEY, d, o)
        IN  /\ r.looked_up
            /\ r.status \in {200, 500}
            /\ r.status = 200 <=> ~process_monitor_data(m, o).value.is_none
            /\ \A x \in OtherOwnerAndFlag(m) :
                  Response(trigger_monitor_processing((monitors \ {m}) \cup {x},
                                                      N8N_API_KEY, N8N_API_KEY, d, o))
                      = Response(r)

\* a trigger was answered 200 with one fetch while nobody is logged in and
\* every id names an inactive monitor
C11_Witness ==
    /\ last.op = "trigger_monitor_processing"
    /\ last.status = 200
    /\ last.fetches = 1
    /\ session = Anonymous
    /\ \A id \in MonitorIds : \E m \in monitors : m.id = id /\ m.is_active = False

\* C12: for every stored monitor whose data_source_url is empty the
\* processor returns None without a call of requests.get, whatever the
\* network would answer, and the trigger reports the failure.
C12_EmptyUrlFailsWithoutFetch ==
    \A m \in monitors, o \in FetchOutcomes :
        m.data_source_url = EmptyStr =>
            LET p == process_monitor_data(m, o)
                r == trigger_monitor_processing(monitors, N8N_API_KEY, N8N_API_KEY,
                         Dict(Missing, Missing, Missing, Missing, FALSE, m.id), o)
            IN  /\ p.value.is_none
                /\ p.fetches = 0
                /\ r.status = 500
                /\ r.fetches = 0

\* a trigger of a monitor with an empty URL failed without a fetch
C12_Witness ==
    /\ last.op = "trigger_monitor_processing"
    /\ last.status = 500
    /\ last.fetches = 0
    /\ \E m \in monitors : m.data_source_url = EmptyStr

\* The failed runs of the processor on monitor m under fetch outcome o: the
\* URL is not set, the fetch fails (an exception of requests.get, or a URL
\* it does not serve), or the extractor returns None.
MissingUrl(m) == m.data_source_url = EmptyStr

FetchFails(m, o) == ~MissingUrl(m) /\ (~o.ok \/ m.data_source_url \notin HttpUrls)

ExtractionFails(m, o) ==
    /\ ~MissingUrl(m)
    /\ ~FetchFails(m, o)
    /\ m.analysis_type \in {"'sentiment'", "'keywords'"}
    /\ o.text = <<>>

\* C13: a trigger of a stored monitor whose processor run fails, by a
\* missing URL, a failed fetch or a failed extraction, is answered 500
\* with an error object and no processed data, the store unchanged; no
\* trigger calls requests.get more than once.
C13_FailureIs500 ==
    \A m \in monitors, o \in FetchOutcomes :
        LET r == trigger_monitor_processing(monitors, N8N_API_KEY, N8N_API_KEY,
                     Dict(Missing, Missing, Missing, Missing, FALSE, m.id), o)
        IN  /\ r.fetches <= 1
            /\ (MissingUrl(m) \/ FetchFails(m, o) \/ ExtractionFails(m, o)) =>
                  /\ r.status = 500
                  /\ r.keys = {"error"}
                  /\ r.data = <<>>
                  /\ r.body = {}
                  /\ r.table = monitors

\* a trigger failed after its one fetch
C13_Witness ==
    /\ last.op = "trigger_monitor_processing"
    /\ last.status = 500
    /\ last.fetches = 1
    /\ \E m \in monitors : m.data_source_url \in NonHttpUrls
    /\ \E m \in monitors : m.data_source_url \in HttpUrls

\* The fetch of monitor m's URL under outcome o returned content.
FetchSucceeds(m, o) == ~MissingUrl(m) /\ ~FetchFails(m, o)

\* C14 as stated: after a successful fetch the processor's value is the
\* extractor's result when the URL is an HTTP(S) one, and the raw content
\* otherwise, whatever the analysis type.
C14_ExtractionByScheme ==
    \A m \in monitors, o \in FetchOutcomes :
        FetchSucceeds(m, o) =>
            process_monitor_data(m, o).value =
                IF m.data_source_url \in HttpUrls
                THEN extract_text_from_html(o.text)
                ELSE Some(o.text)

\* C14, amended: after a successful fetch the processor's value is the
\* extractor's result when analysis_type is sentiment or keywords, a None
\* of the extractor failing the trigger with 500, and the raw content
\* unchanged for every other analysis_type, whatever the URL.
C14_ExtractionByType ==
    \A m \in monitors, o \in FetchOutcomes :
        FetchSucceeds(m, o) =>
            LET p == process_monitor_data(m, o)
                r == trigger_monitor_processing(monitors, N8N_API_KEY, N8N_API_KEY,
                         Dict(Missing, Missing, Missing, Missing, FALSE, m.id), o)
            IN  IF m.analysis_type \in {"'sentiment'", "'keywords'"}
                THEN /\ p.value = IF o.text = <<>>
                                  THEN NoneValue
                                  ELSE Some(SelectSeq(o.text, IsText))
                     /\ o.text = <<>> => r.status = 500
                ELSE /\ p.value = Some(o.text)
                     /\ r.status = 200
                     /\ r.data = o.text

\* a trigger succeeded after its fetch while every id names a monitor with
\* an HTTP URL and an analysis type other than sentiment and keywords
C14_Witness ==
    /\ last.op = "trigger_monitor_processing"
    /\ last.status = 200
    /\ last.fetches = 1
    /\ \A id \in MonitorIds : \E m \in monitors :
          /\ m.id = id
          /\ m.data_source_url \in HttpUrls
          /\ m.analysis_type = "'other'"

\* The content of page o.text after extraction (analysis types sentiment
\* and keywords) or pass-through (any other type) is empty.
EmptyContent(m, o) ==
    IF m.analysis_type \in {"'sentiment'", "'keywords'"}
    THEN SelectSeq(o.text, IsText) = <<>>
    ELSE o.text = <<>>

\* C15: whenever the fetch of a stored monitor succeeds and the content
\* after extraction or pass-through is empty, the trigger reports a failure
\* (500 with an error), not a success with empty data.
C15_EmptyContentFails ==
    \A m \in monitors, o \in FetchOutcomes :
        (FetchSucceeds(m, o) /\ EmptyContent(m, o)) =>
            LET r == trigger_monitor_processing(monitors, N8N_API_KEY, N8N_API_KEY,
                         Dict(Missing, Missing, Missing, Missing, FALSE, m.id), o)
            IN  /\ r.status = 500
                /\ r.keys = {"error"}

\* C16: a trigger of a stored monitor whose analysis_type is neither
\* sentiment nor keywords, the fetch succeeding, is answered 200 without an
\* error and with an analysis_results mapping that is empty: the response
\* carries no content.
C16_OtherTypeEmptyMapping ==
    \A m \in monitors, o \in FetchOutcomes :
        (FetchSucceeds(m, o) /\ m.analysis_type \notin {"'sentiment'", "'keywords'"}) =>
            LET r == trigger_monitor_processing(monitors, N8N_API_KEY, N8N_API_KEY,
                         Dict(Missing, Missing, Missing, Missing, FALSE, m.id), o)
            IN  /\ r.status = 200
                /\ "error" \notin r.keys
                /\ "analysis_results" \in r.keys
                /\ r.data = <<>>

\* C17: a successful trigger of a stored monitor of analysis_type sentiment
\* or keywords returns an analysis_results mapping (holding the key
\* sentiment_compound, or keywords) and not the processed text.
C17_AnalysisResultsReturned ==
    \A m \in monitors, o \in FetchOutcomes :
        LET r == trigger_monitor_processing(monitors, N8N_API_KEY, N8N_API_KEY,
                     Dict(Missing, Missing, Missing, Missing, FALSE, m.id), o)
        IN  (r.status = 200 /\ m.analysis_type \in {"'sentiment'", "'keywords'"}) =>
                /\ "analysis_results" \in r.keys
                /\ "processed_data" \notin r.keys

\* C18: a request to a monitor CRUD route by a client without a session
\* (list, create, read, update, delete, with any body and id) is not
\* answered 200 or 201, returns no monitor and leaves the store unchanged.
C18_AnonymousGetsNothing ==
    /\ \A q \in {[method |-> "GET", data |-> NoBody]} \cup
                {[method |-> "POST", data |-> d] : d \in CreateBodies \cup C6Bodies} :
          LET r == monitors_route(monitors, Anonymous, q.method, q.data, clock)
          IN  /\ r.status \notin {200, 201}
              /\ r.body = {}
              /\ r.table = monitors
    /\ \A id \in MonitorIds, q \in SingleRequests :
          LET r == single_monitor_route(monitors, Anonymous, q.method, id, q.data)
          IN  /\ r.status \notin {200, 201}
              /\ r.body = {}
              /\ r.table = monitors

\* a DELETE without a session was turned away while every id names a stored
\* monitor
C18_Witness ==
    /\ last.op = "manage_single_monitor"
    /\ last.method = "DELETE"
    /\ last.status = 302
    /\ session = Anonymous
    /\ AllIdsStored

\* C19: the trigger answers by the first check that fails, in the order
\* key (401), monitor_id in the body (400), monitor stored (404), and
\* otherwise by the processor (500 when it fails, 200 when it succeeds);
\* 401 and 400 come without a lookup, and 401, 400 and 404 without a
\* fetch.
C19_TriggerCheckOrder ==
    \A k \in ApiKeys, d \in TriggerBodies, o \in {FetchFailed, Fetched(<<Word>>)} :
        LET r == trigger_monitor_processing(monitors, k, N8N_API_KEY, d, o)
            bad_key == k \in {None, EmptyStr} \/ k # N8N_API_KEY
            no_id == d.is_none \/ d.monitor_id = NoId
            stored == {m \in monitors : m.id = d.monitor_id}
        IN  /\ r.status =
                  IF bad_key THEN 401
                  ELSE IF no_id THEN 400
                  ELSE IF stored = {} THEN 404
                  ELSE IF \E m \in stored :
                             MissingUrl(m) \/ FetchFails(m, o) \/ ExtractionFails(m, o)
                  THEN 500
                  ELSE 200
            /\ r.status \in {401, 400} => ~r.looked_up
            /\ r.status \in {401, 400, 404} => r.fetches = 0 /\ r.keys = {"error"}
            /\ r.table = monitors

\* a trigger was answered 404 without a fetch while a monitor is stored
C19_Witness ==
    /\ last.op = "trigger_monitor_processing"
    /\ last.status = 404
    /\ last.fetches = 0
    /\ monitors # {}

\* C20: in every reachable state, whatever creates, updates, deletes and
\* triggers were served, the last_run of every stored monitor is null.
C20_LastRunIsNull == \A m \in monitors : m.last_run = NullTime

\* a trigger succeeded on a store that an update and a delete have changed
C20_Witness ==
    /\ last.op = "trigger_monitor_processing"
    /\ last.status = 200
    /\ \E m \in monitors : m.is_active = False
    /\ Cardinality(monitors) < clock - 1

\* C21: a trigger request, whatever it is answered (401, 400, 404, 500 or
\* 200), leaves the user table and the monitor table as they were: the
\* processed data go to the caller only.
C21_TriggerWritesNothing ==
    [][last'.op = "trigger_monitor_processing" =>
           /\ users' = users
           /\ monitors' = monitors]_vars

\* a trigger was answered 200 after a fetch, users and monitors being
\* stored
C21_Witness ==
    /\ last.op = "trigger_monitor_processing"
    /\ last.status = 200
    /\ last.fetches = 1
    /\ users # {}
    /\ monitors # {}

\* The update bodies of C22: a null for name, data_source_url or
\* analysis_type, next to other fields left out or given.
C22Bodies ==
    {d \in {Dict(n, u, t, a, FALSE, NoId) :
               n \in {None, Missing, "'n2'"}, u \in {None, Missing},
               t \in {None, Missing}, a \in {Missing, False}} :
        None \in {d.name, d.data_source_url, d.analysis_type}}

C23_IdentityIsFixed ==
    [][/\ \A m \in monitors, x \in monitors' :
             x.id = m.id =>
                 /\ x.user_id = m.user_id
                 /\ x.creation_date = m.creation_date
       /\ (last'.op = "manage_single_monitor" /\ last'.method = "PUT") =>
              {x.id : x \in monitors'} = {m.id : m \in monitors}
       /\ \A x \in monitors', y \in monitors' : x.id = y.id => x = y]_vars

\* an update was answered 200 and left a monitor of the caller with
\* another name than it was created with, next to a monitor of another
\* user
C23_Witness ==
    /\ last.op = "manage_single_monitor"
    /\ last.method = "PUT"
    /\ last.status = 200
    /\ \E m \in monitors :
          /\ m.user_id = session
          /\ m.name = EmptyStr
          /\ \E x \in monitors : x.user_id # m.user_id

\* No monitor with this id is to be had from the table: GET, PUT and DELETE
\* on the id by any user and a trigger on it are answered 404, and no
\* user's list holds it.
Gone(table, id) ==
    /\ \A v \in UserIds, q \in SingleRequests :
          manage_single_monitor(table, v, q.method, id, q.data).status = 404
    /\ trigger_monitor_processing(table, N8N_API_KEY, N8N_API_KEY,
           Dict(Missing, Missing, Missing, Missing, FALSE, id),
           Fetched(<<Word>>)).status = 404
    /\ \A v \in UserIds :
          \A x \in manage_monitors(table, v, "GET", NoBody, clock).body : x.id # id

\* The DELETE of the stored monitor m by its owner: answered 200, m is
\* gone and every other monitor is stored as before.
DeletedGone(m) ==
    LET d == manage_single_monitor(monitors, m.user_id, "DELETE", m.id, NoBody)
    IN  /\ d.status = 200
        /\ d.table = monitors \ {m}
        /\ Gone(d.table, m.id)

\* C24 as stated: after the DELETE of a monitor by its owner the monitor is
\* gone, the other monitors are unchanged, and the id stays gone whatever
\* request is served later, a create by any user included.
C24_DeletedStaysGone ==
    \A m \in monitors :
        /\ DeletedGone(m)
        /\ \A u \in UserIds, b \in CrudCreateBodies :
              LET d == manage_single_monitor(monitors, m.user_id, "DELETE", m.id, NoBody)
                  c == manage_monitors(d.table, u, "POST", b, clock)
              IN  Gone(c.table, m.id)

\* C24, amended: after the DELETE of a monitor by its owner the monitor is
\* gone and the other monitors are unchanged; an id that is not stored is
\* gone in every state, and it becomes stored again only by a create that
\* is answered 201, which is given the id when it is one more than the
\* largest id still stored.
C24_DeletedGoneUntilIdReused ==
    [][/\ \A m \in monitors : DeletedGone(m)
       /\ \A id \in MonitorIds :
             (\A m \in monitors : m.id # id) => Gone(monitors, id)
       /\ \A id \in MonitorIds :
             ((\A m \in monitors : m.id # id) /\ (\E x \in monitors' : x.id = id)) =>
                 /\ last'.op = "manage_monitors"
                 /\ last'.status = 201
                 /\ id = NextId(monitors)]_vars

\* a DELETE was answered 200, a monitor is still stored and an id that a
\* request of the run can name is not
C24_Witness ==
    /\ last.op = "manage_single_monitor"
    /\ last.method = "DELETE"
    /\ last.status = 200
    /\ monitors # {}
    /\ \E id \in MonitorIds : \A m \in monitors : m.id # id

\* C25: in every reachable state every stored monitor has a non-empty
\* name, a non-empty data_source_url and a non-empty analysis_type.
C25_NoEmptyFields ==
    \A m \in monitors :
        /\ Truthy(m.name)
        /\ Truthy(m.data_source_url)
        /\ Truthy(m.analysis_type)

\* C26: when N8N_API_KEY is not set, every trigger request is answered 401
\* whatever X-API-KEY header it carries or leaves out, whatever its body and
\* whether or not its monitor_id names a monitor; no monitor is looked up,
\* nothing is fetched and the store is left as it was.
C26_UnsetKeyRejectsAll ==
    N8N_API_KEY = None =>
        \A header \in NoKeyHeaders, data \in TriggerBodies,
           outcome \in {FetchFailed, Fetched(<<Word>>)} :
            LET r == trigger_monitor_processing(monitors, header, N8N_API_KEY,
                                                data, outcome)
            IN  /\ r.status = 401
                /\ r.keys = {"error"}
                /\ r.table = monitors
                /\ ~r.looked_up
                /\ r.fetches = 0

\* no key is configured, a trigger was answered 401 and every id a request
\* can name is the id of a stored monitor
C26_Witness ==
    /\ N8N_API_KEY = None
    /\ last.op = "trigger_monitor_processing"
    /\ last.status = 401
    /\ AllIdsStored

\* Two registration forms with the same username or the same email.
SameUser(f, g) == f.username = g.username \/ f.email = g.email

\* C27: when two registrations with the same username or the same email
\* have both passed the existing-user check and neither has committed,
\* their commits in either order create at most one user: once one of them
\* has created its user, the commit of the other fails, reports no success
\* and leaves the table as the first one left it; a commit that fails
\* creates nothing.
C27_RaceCreatesOne ==
    \A t1 \in 1..MaxInFlight, t2 \in 1..MaxInFlight :
        (/\ t1 # t2
         /\ inflight[t1] # Idle
         /\ inflight[t2] # Idle
         /\ SameUser(inflight[t1], inflight[t2])) =>
            LET r1 == register_commit(users, inflight[t1])
                r2 == register_commit(r1.table, inflight[t2])
            IN  /\ Cardinality(r2.table \ users) <= 1
                /\ users \subseteq r2.table
                /\ r1.table # users =>
                      /\ r2.table = r1.table
                      /\ r2.error # "Registration successful! Please log in."
                /\ r1.error # "Registration successful! Please log in." =>
                      r1.table = users

\* a commit was refused on the unique constraint, which only a registration
\* that passed its check before another one's commit can meet, and one
\* user is stored
C27_Witness ==
    /\ last.op = "register_commit"
    /\ last.error = "Username or Email already exists."
    /\ Cardinality(users) = 1

====
